---- MODULE Spec2Model ----
(***************************************************************************)
(* Model of the workspace_sandbox native launcher: the isolation           *)
(* strategies (build_command of Host, Linux bubblewrap, macOS Seatbelt and *)
(* Windows job object) and the process-lifecycle engine (Engine::new,      *)
(* Engine::run, wait_for_termination).                                     *)
(***************************************************************************)
EXTENDS Integers, Sequences, FiniteSets, TLC

VARIABLES
    platform,    \* compile-time target_os of the launcher
    variant,     \* which engine source: src/native/src/engine.rs or the older src/native/engine.rs
    sandbox,     \* the flag given to Engine::new
    strategy,    \* Engine.strategy, chosen by Engine::new
    ctx,         \* the ExecutionContext handed to run
    host,        \* what the launcher finds on the machine: tools, files, its own environment
    pc,          \* position of Engine::run
    built,       \* strategies whose build_command has been called, in order
    cmdRes,      \* result of build_command: Ok(Command) or Err
    spawns,      \* number of processes spawned so far
    child,       \* the spawned child, as the OS sees it
    exitStatus,  \* the exit status the OS holds for the child once it is dead
    toWrite,     \* bytes the child still wants to write, per stream
    pipe,        \* bytes buffered in each pipe
    wopen,       \* per stream: does the child still hold the write end
    heirs,       \* per stream: does a surviving descendant hold the write end
    task,        \* per stream: state of the copy task
    forwarded,   \* bytes forwarded to the launcher's own stream
    sig,         \* termination request: "none", "raised"
    killTask,    \* the termination watcher task
    path,        \* which branch of the select won
    waitRes,     \* what child.wait() gave to the select
    result,      \* value returned by run
    returns      \* how many times run has returned

vars == <<platform, variant, sandbox, strategy, ctx, host, pc, built, cmdRes, spawns,
          child, exitStatus, toWrite, pipe, wopen, heirs, task, forwarded,
          sig, killTask, path, waitRes, result, returns>>

----------------------------------------------------------------------------
(* Bounds of the model *)

\* bytes a child may want to write to one stream
MaxWrite == 2
\* capacity of a pipe, in bytes
PipeCap == 1

----------------------------------------------------------------------------
(* Strings.  TLC cannot index a string, so the program names whose letters *)
(* the code inspects are spelled out here.                                 *)

Chars(s) ==
    CASE s = "ls"        -> <<"l", "s">>
      [] s = "cmd"       -> <<"c", "m", "d">>
      [] s = "echo"      -> <<"e", "c", "h", "o">>
      [] s = "Echo"      -> <<"E", "c", "h", "o">>
      [] s = "dir"       -> <<"d", "i", "r">>
      [] s = "del"       -> <<"d", "e", "l">>
      [] s = "copy"      -> <<"c", "o", "p", "y">>
      [] s = "move"      -> <<"m", "o", "v", "e">>
      [] s = "mkdir"     -> <<"m", "k", "d", "i", "r">>
      [] s = "rmdir"     -> <<"r", "m", "d", "i", "r">>
      [] s = "type"      -> <<"t", "y", "p", "e">>
      [] s = "cls"       -> <<"c", "l", "s">>
      [] s = "ping"      -> <<"p", "i", "n", "g">>
      [] s = "PING"      -> <<"P", "I", "N", "G">>
      [] s = "ver"       -> <<"v", "e", "r">>
      [] s = "run.bat"   -> <<"r", "u", "n", ".", "b", "a", "t">>
      [] s = "Run.CMD"   -> <<"R", "u", "n", ".", "C", "M", "D">>
      [] s = ".bat"      -> <<".", "b", "a", "t">>
      [] s = ".cmd"      -> <<".", "c", "m", "d">>

LowerChar(c) ==
    CASE c = "A" -> "a" [] c = "B" -> "b" [] c = "C" -> "c" [] c = "D" -> "d"
      [] c = "E" -> "e" [] c = "F" -> "f" [] c = "G" -> "g" [] c = "H" -> "h"
      [] c = "I" -> "i" [] c = "J" -> "j" [] c = "K" -> "k" [] c = "L" -> "l"
      [] c = "M" -> "m" [] c = "N" -> "n" [] c = "O" -> "o" [] c = "P" -> "p"
      [] c = "Q" -> "q" [] c = "R" -> "r" [] c = "S" -> "s" [] c = "T" -> "t"
      [] c = "U" -> "u" [] c = "V" -> "v" [] c = "W" -> "w" [] c = "X" -> "x"
      [] c = "Y" -> "y" [] c = "Z" -> "z"
      [] OTHER -> c

\* str::to_lowercase, on the letters of a name
ToLowercase(cs) == [i \in 1..Len(cs) |-> LowerChar(cs[i])]

\* str::ends_with
EndsWith(cs, suffix) ==
    /\ Len(suffix) <= Len(cs)
    /\ SubSeq(cs, Len(cs) - Len(suffix) + 1, Len(cs)) = suffix

\* Vec::insert(0, a); Vec::insert(1, b)
InsertFront2(v, a, b) == <<a, b>> \o v

----------------------------------------------------------------------------
(* Environments: maps from variable name to value *)

NoEnv == [k \in {} |-> ""]

\* Command::env(k, v): a later setting of the same key replaces the earlier
EnvSet(m, k, v) == [x \in DOMAIN m \cup {k} |-> IF x = k THEN v ELSE m[x]]

\* Command::envs(n): every entry of n set in turn
Envs(m, n) == [x \in DOMAIN m \cup DOMAIN n |-> IF x \in DOMAIN n THEN n[x] ELSE m[x]]

\* std::env::var(k) is Ok
HasVar(k) == k \in DOMAIN host.env

RECURSIVE KeepFrom(_, _)
\* for k in keys { if let Ok(v) = env::var(k) { command.env(k, v) } }
KeepFrom(keys, m) ==
    IF keys = <<>> THEN m
    ELSE KeepFrom(Tail(keys),
                  IF HasVar(Head(keys)) THEN EnvSet(m, Head(keys), host.env[Head(keys)]) ELSE m)

\* std::process::Command::new(program): nothing configured yet, so the child
\* would inherit the environment, the working directory and the three streams
CommandNew(program) ==
    [program |-> program, args |-> <<>>, env_clear |-> FALSE, envs |-> NoEnv,
     cwd |-> <<>>, stdin |-> "inherit", stdout |-> "inherit", stderr |-> "inherit"]

\* The environment the spawned child gets from a command
FinalEnv(c) == IF c.env_clear THEN c.envs ELSE Envs(host.env, c.envs)

Ok(c) == [ok |-> TRUE, cmd |-> c]
Err(kind, tool, msg) == [ok |-> FALSE, kind |-> kind, tool |-> tool, msg |-> msg]

\* which(program).unwrap_or_else(|_| program.clone().into())
Which(program) == IF program \in host.onPath THEN <<"/usr/bin", program>> ELSE <<program>>

\* if let Some(cwd) = &ctx.cwd { current_dir(cwd) } else { current_dir(&ctx.root_path) }
CurrentDir(c) == IF c.cwd # <<>> THEN <<c.cwd[1]>> ELSE <<c.root_path>>

----------------------------------------------------------------------------
(* Host strategy: src/native/src/strategies/host.rs *)

HostBuiltins == {"echo", "dir", "del", "copy", "move", "mkdir", "rmdir", "type", "cls", "ping"}

\* cfg!(windows) && builtins.contains(&cmd_lower.as_str())
HostReroutes(c) ==
    /\ platform = "windows"
    /\ \E b \in HostBuiltins : Chars(b) = ToLowercase(Chars(c.cmd))

HostBuild(c) ==
    LET reroute  == HostReroutes(c)
        program  == IF reroute THEN "cmd" ELSE c.cmd
        args     == IF reroute THEN InsertFront2(c.args, "/c", c.cmd) ELSE c.args
        resolved == IF program = "cmd" THEN <<"cmd">> ELSE Which(program)
        command  == CommandNew(resolved)
    IN  Ok([command EXCEPT !.args = args,
                           !.envs = Envs(@, c.env_vars),
                           !.stdin = "null", !.stdout = "piped", !.stderr = "piped",
                           !.cwd = CurrentDir(c)])

----------------------------------------------------------------------------
(* Linux strategy: src/native/src/strategies/linux.rs *)

\* fs::read_link("/etc/resolv.conf") is Ok: the path is a symbolic link
ResolvIsLink == host.resolv \in {"link_into_run", "link_elsewhere", "link_dangling"}

\* fs::canonicalize("/etc/resolv.conf"): the real path, when the link resolves
ResolvRealPath ==
    CASE host.resolv = "link_into_run"  -> <<"/run/systemd/resolve/stub-resolv.conf">>
      [] host.resolv = "link_elsewhere" -> <<"/usr/lib/systemd/resolv.conf">>
      [] OTHER                          -> <<>>

\* real_path_str.starts_with("/run")
StartsWithRun(p) == p = "/run/systemd/resolve/stub-resolv.conf"

\* real_path.parent()
ParentOf(p) ==
    CASE p = "/run/systemd/resolve/stub-resolv.conf" -> <<"/run/systemd/resolve">>
      [] p = "/usr/lib/systemd/resolv.conf"          -> <<"/usr/lib/systemd">>
      [] OTHER                                       -> <<>>

\* Path::new(p).exists()
Exists(p) == p \in host.files

ResolvArgs ==
    IF ResolvIsLink
    THEN IF ResolvRealPath # <<>> /\ StartsWithRun(ResolvRealPath[1])
         THEN (IF ParentOf(ResolvRealPath[1]) # <<>>
               THEN <<"--dir", ParentOf(ResolvRealPath[1])[1]>> ELSE <<>>)
              \o <<"--ro-bind", ResolvRealPath[1], ResolvRealPath[1]>>
         ELSE <<>>
    ELSE IF Exists("/etc/resolv.conf")
         THEN <<"--ro-bind", "/etc/resolv.conf", "/etc/resolv.conf">>
         ELSE <<>>

ToolCaches ==
    <<".m2", ".gradle", ".npm", ".pub-cache", ".cargo", ".rustup",
      ".local/share/pnpm", "go/pkg", ".config/gcloud", ".flutter">>

\* home_path.join(cache_dir) and format!("{home}/{cache_dir}"), for the home
\* directory of the model
HomeJoin(home, d) ==
    CASE d = ".m2"               -> "/home/u/.m2"
      [] d = ".gradle"           -> "/home/u/.gradle"
      [] d = ".npm"              -> "/home/u/.npm"
      [] d = ".pub-cache"        -> "/home/u/.pub-cache"
      [] d = ".cargo"            -> "/home/u/.cargo"
      [] d = ".rustup"           -> "/home/u/.rustup"
      [] d = ".local/share/pnpm" -> "/home/u/.local/share/pnpm"
      [] d = "go/pkg"            -> "/home/u/go/pkg"
      [] d = ".config/gcloud"    -> "/home/u/.config/gcloud"
      [] d = ".flutter"          -> "/home/u/.flutter"

RECURSIVE CacheArgs(_, _)
\* for cache_dir in tool_caches { if source_path.exists() { --ro-bind source dest } }
CacheArgs(home, dirs) ==
    IF dirs = <<>> THEN <<>>
    ELSE (IF Exists(HomeJoin(home, Head(dirs)))
          THEN <<"--ro-bind", HomeJoin(home, Head(dirs)), HomeJoin(home, Head(dirs))>>
          ELSE <<>>)
         \o CacheArgs(home, Tail(dirs))

HomeArgs ==
    IF HasVar("HOME") /\ Exists(host.env["HOME"])
    THEN <<"--tmpfs", host.env["HOME"]>> \o CacheArgs(host.env["HOME"], ToolCaches)
    ELSE <<>>

\* NetFlag with the branches exchanged
NetFlagInverted(c) == IF c.allow_network THEN "--unshare-net" ELSE "--share-net"

\* the flag chosen by `if ctx.allow_network`
NetFlag(c) == IF c.allow_network THEN "--share-net" ELSE "--unshare-net"

LinuxArgs(c) ==
    <<"--die-with-parent", "--unshare-pid", "--unshare-ipc", "--unshare-uts">>
    \o <<NetFlag(c)>>
    \o <<"--ro-bind", "/", "/">>
    \o <<"--dev", "/dev", "--proc", "/proc", "--tmpfs", "/tmp", "--tmpfs", "/var/tmp",
         "--tmpfs", "/root", "--tmpfs", "/run">>
    \o ResolvArgs
    \o HomeArgs
    \o <<"--bind", c.root_path, c.root_path, "--chdir", c.root_path>>
    \o <<"--", c.cmd>> \o c.args

LinuxKeepVars == <<"PATH", "JAVA_HOME", "FLUTTER_ROOT", "GOPATH", "TERM", "LANG", "HOME", "SHELL">>

\* LinuxEnv with the two loops in the other order
LinuxEnvKeepLast(c) == KeepFrom(LinuxKeepVars, Envs(NoEnv, c.env_vars))

\* command.env_clear(); the keep_vars loop; the ctx.env_vars loop
LinuxEnv(c) == Envs(KeepFrom(LinuxKeepVars, NoEnv), c.env_vars)

LinuxBuild(c) ==
    IF "bwrap" \notin host.onPath
    THEN Err("ToolMissing", "bwrap", "bwrap not found. Install with: sudo apt install bubblewrap")
    ELSE Ok([CommandNew(Which("bwrap")) EXCEPT
                !.args = LinuxArgs(c),
                !.env_clear = TRUE,
                !.envs = LinuxEnv(c),
                !.stdin = "null", !.stdout = "piped", !.stderr = "piped"])

----------------------------------------------------------------------------
(* macOS strategy: src/native/src/strategies/macos.rs *)

\* The generated profile.  Its text is fixed but for three holes, which are
\* kept as the fields of a record; the argument list holds it as one
\* argument, "<profile>".
MacProfile(c) ==
    [workspace |-> c.root_path,
     home |-> IF HasVar("HOME") THEN host.env["HOME"] ELSE "/var/tmp",
     network_policy |-> IF c.allow_network THEN "(allow network*)" ELSE "(deny network*)"]

\* command.env_clear(); command.envs(env::vars()); command.envs(&ctx.env_vars)
MacEnv(c) == Envs(Envs(NoEnv, host.env), c.env_vars)

MacBuild(c) ==
    IF ~Exists("/usr/bin/sandbox-exec")
    THEN Err("ToolMissing", "sandbox-exec", "sandbox-exec not found on this system")
    ELSE Ok([CommandNew(<<"/usr/bin/sandbox-exec">>) EXCEPT
                !.args = <<"-p", "<profile>", c.cmd>> \o c.args,
                !.env_clear = TRUE,
                !.envs = MacEnv(c),
                !.cwd = CurrentDir(c),
                !.stdin = "null", !.stdout = "piped", !.stderr = "piped"])

----------------------------------------------------------------------------
(* Windows strategy: src/native/src/strategies/windows.rs *)

WindowsBuiltins ==
    {"echo", "dir", "del", "copy", "move", "mkdir", "rmdir", "type", "cls", "ping", "ver"}

\* prog_lower.ends_with(".bat") || prog_lower.ends_with(".cmd")
IsBatch(lower) == EndsWith(lower, Chars(".bat")) \/ EndsWith(lower, Chars(".cmd"))

\* builtins.contains(&prog_lower.as_str()) || is_batch
WindowsReroutes(c) ==
    \/ \E b \in WindowsBuiltins : Chars(b) = ToLowercase(Chars(c.cmd))
    \/ IsBatch(ToLowercase(Chars(c.cmd)))

WindowsCriticalVars ==
    <<"SystemRoot", "windir", "PATH", "PATHEXT", "COMSPEC", "TEMP", "TMP",
      "USERPROFILE", "JAVA_HOME">>

\* the four command.env calls under `if !ctx.allow_network`
ProxyVars(m) ==
    EnvSet(EnvSet(EnvSet(EnvSet(m, "HTTP_PROXY", "http://0.0.0.0:0"),
                         "HTTPS_PROXY", "http://0.0.0.0:0"),
                  "ALL_PROXY", "socks5://0.0.0.0:0"),
           "NO_PROXY", "")

\* env_clear, the critical_vars loop, envs(&ctx.env_vars), then the proxy variables
WindowsEnv(c) ==
    LET base == Envs(KeepFrom(WindowsCriticalVars, NoEnv), c.env_vars)
    IN  IF ~c.allow_network THEN ProxyVars(base) ELSE base

\* WindowsBuild without the .stdout(Stdio::piped()) call
WindowsBuildStdoutInherited(c) ==
    LET reroute  == WindowsReroutes(c)
        program  == IF reroute THEN "cmd" ELSE c.cmd
        args     == IF reroute THEN InsertFront2(c.args, "/c", c.cmd) ELSE c.args
        resolved == IF program = "cmd" THEN <<"cmd">> ELSE Which(program)
        command  == [CommandNew(resolved) EXCEPT
                        !.args = args,
                        !.env_clear = TRUE,
                        !.envs = WindowsEnv(c),
                        !.cwd = CurrentDir(c),
                        !.stdin = "null", !.stderr = "piped"]
    IN  IF platform = "windows" /\ ~host.jobOk
        THEN Err("JobObject", "", "job object could not be created")
        ELSE Ok(command)

WindowsBuild(c) ==
    LET reroute  == WindowsReroutes(c)
        program  == IF reroute THEN "cmd" ELSE c.cmd
        args     == IF reroute THEN InsertFront2(c.args, "/c", c.cmd) ELSE c.args
        resolved == IF program = "cmd" THEN <<"cmd">> ELSE Which(program)
        command  == [CommandNew(resolved) EXCEPT
                        !.args = args,
                        !.env_clear = TRUE,
                        !.envs = WindowsEnv(c),
                        !.cwd = CurrentDir(c),
                        !.stdin = "null", !.stdout = "piped", !.stderr = "piped"]
    IN  IF platform = "windows" /\ ~host.jobOk
        THEN Err("JobObject", "", "job object could not be created")
        ELSE Ok(command)

----------------------------------------------------------------------------
(* IsolationStrategy: src/native/src/strategies/base.rs *)

\* BuildCommand falling back to the Host strategy when the strategy fails
BuildCommandWithFallback(s, c) ==
    LET r == CASE s = "Host"    -> HostBuild(c)
               [] s = "Linux"   -> LinuxBuild(c)
               [] s = "MacOs"   -> MacBuild(c)
               [] s = "Windows" -> WindowsBuild(c)
    IN  IF r.ok THEN r ELSE HostBuild(c)

\* dyn dispatch of build_command
BuildCommand(s, c) ==
    CASE s = "Host"    -> HostBuild(c)
      [] s = "Linux"   -> LinuxBuild(c)
      [] s = "MacOs"   -> MacBuild(c)
      [] s = "Windows" -> WindowsBuild(c)

\* build_command takes `ctx: &ExecutionContext`: the context after the call
CtxAfterBuild(s, c) == c

\* Engine::new
EngineNew(os, sb) ==
    IF sb
    THEN CASE os = "linux"   -> "Linux"
           [] os = "windows" -> "Windows"
           [] os = "macos"   -> "MacOs"
           [] OTHER          -> "Host"
    ELSE "Host"

----------------------------------------------------------------------------
(* The child process and its exit status, as std::process sees them *)

Streams == {"out", "err"}

IsWindows == platform = "windows"

\* An exit status.  A 32-bit Windows exit code is held as its two 16-bit
\* halves, hi and lo; a Unix exit code or signal number is in lo.
Status(kind, hi, lo) == [kind |-> kind, hi |-> hi, lo |-> lo]

NoStatus == Status("none", 0, 0)

\* The statuses a child can die with by itself: on Unix an exit code of one
\* byte or a signal; on Windows a 32-bit exit code
OwnStatuses ==
    IF IsWindows
    THEN {Status("exited", 0, 0), Status("exited", 0, 3), Status("exited", 2^16 - 1, 2^16 - 1)}
    ELSE {Status("exited", 0, 0), Status("exited", 0, 3), Status("exited", 0, 255),
          Status("signaled", 0, 11)}

\* The status of a child killed by Child::kill: SIGKILL on Unix,
\* TerminateProcess(handle, 1) on Windows
KilledStatus == IF IsWindows THEN Status("exited", 0, 1) ELSE Status("signaled", 0, 9)

\* `as i32` of the 32-bit unsigned value hi * 2^16 + lo
AsI32(hi, lo) == IF hi >= 2^15 THEN (hi - 2^16) * 2^16 + lo ELSE hi * 2^16 + lo

\* ExitStatus::code(): Some(code) or None
StatusCode(st) ==
    IF IsWindows THEN <<AsI32(st.hi, st.lo)>>
    ELSE IF st.kind = "exited" THEN <<st.lo>> ELSE <<>>

\* CodeOrSentinel with unwrap_or(0)
CodeOrZero(st) == IF StatusCode(st) # <<>> THEN StatusCode(st)[1] ELSE 0

\* s.code().unwrap_or(-1)
CodeOrSentinel(st) == IF StatusCode(st) # <<>> THEN StatusCode(st)[1] ELSE -1

\* The older engine: code().unwrap_or(-1), and Ok(-1) when s.signal() is Some
LegacyCode(st) ==
    IF ~IsWindows /\ st.kind = "signaled" THEN -1 ELSE CodeOrSentinel(st)

----------------------------------------------------------------------------
(* Results of Engine::run *)

NoErr == Err("none", "", "")
NotBuilt == Err("NotBuilt", "", "")
NoResult == [tag |-> "none", code |-> 0, err |-> NoErr]
ROk(code) == [tag |-> "Ok", code |-> code, err |-> NoErr]
RErr(e) == [tag |-> "Err", code |-> 0, err |-> e]

\* return Ok(-1) on the cancellation branch
CancelResult == ROk(-1)

\* ExitResult giving way to a termination request that came after the exit
ExitResultUnlessTerminated(w) ==
    IF killTask = "done" THEN CancelResult
    ELSE IF w.ok
    THEN ROk(IF variant = "legacy" THEN LegacyCode(w.status) ELSE CodeOrSentinel(w.status))
    ELSE RErr(Err("WaitFailed", "", "Wait failed"))

\* match exit_status { Ok(s) => Ok(s.code().unwrap_or(-1)), Err(e) => Err(anyhow!("Wait failed")) }
ExitResult(w) ==
    IF w.ok
    THEN ROk(IF variant = "legacy" THEN LegacyCode(w.status) ELSE CodeOrSentinel(w.status))
    ELSE RErr(Err("WaitFailed", "", "Wait failed"))

\* KillOnDrop with .kill_on_drop(true) left out
KillOnDropUnset == FALSE

\* .kill_on_drop(true): only the engine of src/native/src sets it
KillOnDrop == variant = "current"

\* Dropping the tokio Child: with kill_on_drop a live child is killed
DropChild(ch) == IF KillOnDrop /\ ch = "alive" THEN "zombie" ELSE ch

\* The status the OS holds after the Child is dropped
DropStatus(ch, st) == IF KillOnDrop /\ ch = "alive" THEN KilledStatus ELSE st

\* What the engine forces on the built command before spawn
EngineStdio(c) == [c EXCEPT !.stdout = "piped", !.stderr = "piped", !.stdin = "null"]

\* child.stdout.take() / child.stderr.take() are Some
PipesCaptured(c) == c.stdout = "piped" /\ c.stderr = "piped"

\* JoinReady joining the stdout task only
JoinReadyStdoutOnly == task["out"] # "running"

\* tokio::join!(stdout_task, stderr_task) has completed
JoinReady == \A s \in Streams : task[s] # "running"

\* A reader of the pipe sees end-of-stream: nothing buffered, no writer left
AtEof(s) == pipe[s] = 0 /\ ~wopen[s] /\ ~heirs

----------------------------------------------------------------------------
(* The inputs the model draws from *)

Platforms == {"linux", "macos", "windows", "other"}

EnvKeys == {"HOME", "TERM", "HTTP_PROXY"}

\* ctx.env_vars: any subset of EnvKeys, each set to the caller's value
CtxEnvs == {[k \in K |-> "from-ctx"] : K \in SUBSET EnvKeys}

Contexts(cmds, argss, envs, cwds) ==
    {[id |-> "p1", root_path |-> "/w", cmd |-> c, args |-> a, env_vars |-> e,
      cwd |-> d, allow_network |-> n] :
        c \in cmds, a \in argss, e \in envs, d \in cwds, n \in BOOLEAN}

BuildContexts ==
    Contexts({"ls", "Echo", "run.bat", "ver", "ping"},
             {<<>>, <<"hi">>, <<"--unshare-net">>, <<"--share-net", "hi">>},
             CtxEnvs,
             {<<>>, <<"/w/sub">>})

EngineContexts == Contexts({"ls"}, {<<"hi">>}, {NoEnv}, {<<>>})

\* The launcher's own environment
HostEnvs ==
    {NoEnv,
     ("PATH" :> "/usr/bin"),
     ("PATH" :> "/usr/bin" @@ "HOME" :> "/home/u" @@ "TERM" :> "xterm"
        @@ "FOO" :> "from-host" @@ "HTTP_PROXY" :> "http://corp:3128"
        @@ "SystemRoot" :> "C:/Windows")}

HostOf(onPath, files, resolv, env, jobOk) ==
    [onPath |-> onPath,
     files |-> files \cup (IF resolv \in {"file", "link_into_run", "link_elsewhere"}
                           THEN {"/etc/resolv.conf"} ELSE {}),
     resolv |-> resolv, env |-> env, jobOk |-> jobOk]

\* Machines the build is tried on: what matters to the strategies of the platform
BuildHosts(os) ==
    CASE os = "linux" ->
           {HostOf(t, f, r, e, TRUE) :
              t \in {{"ls"}, {"bwrap", "ls"}},
              f \in {{}, {"/home/u"}, {"/home/u", "/home/u/.m2", "/home/u/.cargo"}},
              r \in {"link_into_run", "link_elsewhere", "link_dangling", "file", "absent"},
              e \in HostEnvs}
      [] os = "macos" ->
           {HostOf(t, f, "file", e, TRUE) :
              t \in {{}, {"ls"}}, f \in {{}, {"/usr/bin/sandbox-exec"}}, e \in HostEnvs}
      [] os = "windows" ->
           {HostOf(t, {}, "absent", e, j) :
              t \in {{}, {"ls"}}, e \in HostEnvs, j \in BOOLEAN}
      [] OTHER ->
           {HostOf(t, {}, "file", e, TRUE) : t \in {{}, {"ls"}}, e \in HostEnvs}

\* Machines the engine is run on: with and without the platform's helper
EngineHosts(os) ==
    CASE os = "linux" ->
           {HostOf(t, {}, "file", NoEnv, TRUE) : t \in {{"ls"}, {"bwrap", "ls"}}}
      [] os = "macos" ->
           {HostOf({"ls"}, f, "file", NoEnv, TRUE) : f \in {{}, {"/usr/bin/sandbox-exec"}}}
      [] os = "windows" ->
           {HostOf({"ls"}, {}, "absent", NoEnv, j) : j \in BOOLEAN}
      [] OTHER ->
           {HostOf({"ls"}, {}, "file", NoEnv, TRUE)}

----------------------------------------------------------------------------
(* Initial states: the engine has been constructed, run has not started *)

InitRun ==
    /\ strategy = EngineNew(platform, sandbox)
    /\ pc = "created"
    /\ built = <<>>
    /\ cmdRes = NotBuilt
    /\ spawns = 0
    /\ child = "none"
    /\ exitStatus = NoStatus
    /\ toWrite = [s \in Streams |-> 0]
    /\ pipe = [s \in Streams |-> 0]
    /\ wopen = [s \in Streams |-> FALSE]
    /\ heirs = FALSE
    /\ task = [s \in Streams |-> "none"]
    /\ forwarded = [s \in Streams |-> 0]
    /\ sig = "none"
    /\ killTask = "none"
    /\ path = "none"
    /\ waitRes = [ok |-> FALSE, status |-> NoStatus]
    /\ result = NoResult
    /\ returns = 0

Init ==
    /\ platform \in Platforms
    /\ variant \in {"current", "legacy"}
    /\ sandbox \in BOOLEAN
    /\ ctx \in EngineContexts
    /\ host \in EngineHosts(platform)
    /\ InitRun

InitBuild ==
    /\ platform \in Platforms
    /\ variant = "current"
    /\ sandbox \in BOOLEAN
    /\ ctx \in BuildContexts
    /\ host \in BuildHosts(platform)
    /\ InitRun

----------------------------------------------------------------------------
(* Engine::run *)

inputs == <<platform, variant, sandbox, strategy, host>>
osVars == <<child, exitStatus, toWrite, pipe, wopen, heirs, task, forwarded, sig, killTask>>

\* run returns r
Return(r) ==
    /\ pc' = "done"
    /\ result' = r
    /\ returns' = returns + 1

\* engine.run(ctx) is called
RunCalled ==
    /\ pc = "created"
    /\ pc' = "build"
    /\ UNCHANGED <<inputs, ctx, built, cmdRes, spawns, osVars, path, waitRes, result, returns>>

\* let cmd_res = self.strategy.build_command(&ctx); if let Err(e) = cmd_res { return Err(e) }
RunBuild ==
    /\ pc = "build"
    /\ cmdRes' = BuildCommand(strategy, ctx)
    /\ ctx' = CtxAfterBuild(strategy, ctx)
    /\ built' = Append(built, strategy)
    /\ IF cmdRes'.ok
       THEN pc' = "spawn" /\ UNCHANGED <<result, returns>>
       ELSE Return(RErr(cmdRes'))
    /\ UNCHANGED <<inputs, spawns, osVars, path, waitRes>>

\* .spawn() fails: map_err(|e| anyhow!("Spawn failed: {}", e))?
RunSpawnFails ==
    /\ pc = "spawn"
    /\ Return(RErr(Err("SpawnFailed", "", "Spawn failed")))
    /\ UNCHANGED <<inputs, ctx, built, cmdRes, spawns, osVars, path, waitRes>>

\* The copy tasks left unstarted until the wait for the child is over
CopyTasksDeferred == [s \in Streams |-> "none"]

\* tokio::spawn of stdout_task and stderr_task: both are running before select!
CopyTasksSpawned == [s \in Streams |-> "running"]

\* .spawn() succeeds; the pipes are taken and the three tasks are started.
\* Without both pipes the expect() panics and the Child is dropped.
RunSpawn ==
    /\ pc = "spawn"
    /\ spawns' = spawns + 1
    /\ \E w \in [Streams -> 0..MaxWrite] : toWrite' = w
    /\ pipe' = [s \in Streams |-> 0]
    /\ wopen' = [s \in Streams |-> TRUE]
    /\ heirs' = FALSE
    /\ IF PipesCaptured(EngineStdio(cmdRes.cmd))
       THEN /\ pc' = "select"
            /\ child' = "alive"
            /\ exitStatus' = NoStatus
            /\ task' = CopyTasksSpawned
            /\ killTask' = "listening"
       ELSE /\ pc' = "panicked"
            /\ child' = DropChild("alive")
            /\ exitStatus' = DropStatus("alive", NoStatus)
            /\ UNCHANGED <<task, killTask>>
    /\ UNCHANGED <<inputs, ctx, built, cmdRes, forwarded, sig, path, waitRes, result, returns>>

\* select!: status = child.wait() => status, the child has exited
SelectExit ==
    /\ pc = "select"
    /\ child = "zombie"
    /\ child' = "reaped"
    /\ waitRes' = [ok |-> TRUE, status |-> exitStatus]
    /\ path' = "exit"
    /\ pc' = "joining"
    /\ UNCHANGED <<inputs, ctx, built, cmdRes, spawns, exitStatus, toWrite, pipe, wopen, heirs,
                   task, forwarded, sig, killTask, result, returns>>

\* select!: child.wait() resolves to Err: the OS failed the wait
SelectWaitErr ==
    /\ pc = "select"
    /\ child \in {"alive", "zombie"}
    /\ waitRes' = [ok |-> FALSE, status |-> NoStatus]
    /\ path' = "waiterr"
    /\ pc' = "joining"
    /\ UNCHANGED <<inputs, ctx, built, cmdRes, spawns, osVars, result, returns>>

\* SelectCancel without the child.kill()
SelectCancelNoKill ==
    /\ pc = "select"
    /\ killTask = "done"
    /\ path' = "cancel"
    /\ Return(CancelResult)
    /\ UNCHANGED <<inputs, ctx, built, cmdRes, spawns, osVars, waitRes>>

\* select!: _ = kill_task => child.kill(): the kill is sent, then awaited
SelectCancel ==
    /\ pc = "select"
    /\ killTask = "done"
    /\ path' = "cancel"
    /\ pc' = "killing"
    /\ IF child = "alive"
       THEN /\ child' = "zombie"
            /\ exitStatus' = KilledStatus
            /\ wopen' = [s \in Streams |-> FALSE]
       ELSE UNCHANGED <<child, exitStatus, wopen>>
    /\ UNCHANGED <<inputs, ctx, built, cmdRes, spawns, toWrite, pipe, heirs, task, forwarded,
                   sig, killTask, waitRes, result, returns>>

\* KillReturn with the `return` lost: Ok(-1) is produced and run carries on to the join
KillReturnFallsThrough ==
    /\ pc = "killing"
    /\ child \in {"zombie", "reaped"}
    /\ child' = "reaped"
    /\ pc' = "joining"
    /\ result' = CancelResult
    /\ returns' = returns + 1
    /\ UNCHANGED <<inputs, ctx, built, cmdRes, spawns, exitStatus, toWrite, pipe, wopen, heirs,
                   task, forwarded, sig, killTask, path, waitRes>>

\* child.kill().await completes (the child is reaped); return Ok(-1)
KillReturn ==
    /\ pc = "killing"
    /\ child \in {"zombie", "reaped"}
    /\ child' = "reaped"
    /\ Return(CancelResult)
    /\ UNCHANGED <<inputs, ctx, built, cmdRes, spawns, exitStatus, toWrite, pipe, wopen, heirs,
                   task, forwarded, sig, killTask, path, waitRes>>

\* tokio::join!(stdout_task, stderr_task) completes; match exit_status; the
\* Child is dropped as run returns
JoinReturn ==
    /\ pc = "joining"
    /\ JoinReady
    /\ Return(ExitResult(waitRes))
    /\ child' = DropChild(child)
    /\ exitStatus' = DropStatus(child, exitStatus)
    /\ wopen' = IF child' = child THEN wopen ELSE [s \in Streams |-> FALSE]
    /\ UNCHANGED <<inputs, ctx, built, cmdRes, spawns, toWrite, pipe, heirs, task, forwarded,
                   sig, killTask, path, waitRes>>

\* The future of run is dropped at one of its await points
RunDropped ==
    /\ pc \in {"select", "killing", "joining"}
    /\ pc' = "dropped"
    /\ child' = DropChild(child)
    /\ exitStatus' = DropStatus(child, exitStatus)
    /\ wopen' = IF child' = child THEN wopen ELSE [s \in Streams |-> FALSE]
    /\ UNCHANGED <<inputs, ctx, built, cmdRes, spawns, toWrite, pipe, heirs, task, forwarded,
                   sig, killTask, path, waitRes, result, returns>>

----------------------------------------------------------------------------
(* The child, its descendants and the operating system *)

runVars == <<pc, built, cmdRes, spawns, path, waitRes, result, returns, ctx>>

\* The reading end of a pipe is gone once its copy task has finished
ReaderGone(s) == task[s] \in {"done", "failed"}

\* The child writes one byte to a stream: into the pipe when there is room, and
\* nowhere once the reading end has been dropped
ChildWrite(s) ==
    /\ child = "alive"
    /\ toWrite[s] > 0
    /\ IF ~ReaderGone(s)
       THEN /\ pipe[s] < PipeCap
            /\ pipe' = [pipe EXCEPT ![s] = @ + 1]
       ELSE UNCHANGED pipe
    /\ toWrite' = [toWrite EXCEPT ![s] = @ - 1]
    /\ UNCHANGED <<inputs, runVars, child, exitStatus, wopen, heirs, task, forwarded, sig, killTask>>

\* The child starts a descendant, which inherits the write ends of both pipes
ChildFork ==
    /\ child = "alive"
    /\ ~heirs
    /\ heirs' = TRUE
    /\ UNCHANGED <<inputs, runVars, child, exitStatus, toWrite, pipe, wopen, task, forwarded,
                   sig, killTask>>

\* The descendant exits or closes the pipes
HeirClose ==
    /\ heirs
    /\ child # "alive"
    /\ heirs' = FALSE
    /\ UNCHANGED <<inputs, runVars, child, exitStatus, toWrite, pipe, wopen, task, forwarded,
                   sig, killTask>>

\* The child, having written what it wanted, dies by itself
ChildExit ==
    /\ child = "alive"
    /\ \A s \in Streams : toWrite[s] = 0
    /\ child' = "zombie"
    /\ \E st \in OwnStatuses : exitStatus' = st
    /\ wopen' = [s \in Streams |-> FALSE]
    /\ UNCHANGED <<inputs, runVars, toWrite, pipe, heirs, task, forwarded, sig, killTask>>

\* tokio::io::copy moves one byte from the pipe to the launcher's stream
CopyByte(s) ==
    /\ task[s] = "running"
    /\ pipe[s] > 0
    /\ pipe' = [pipe EXCEPT ![s] = @ - 1]
    /\ forwarded' = [forwarded EXCEPT ![s] = @ + 1]
    /\ UNCHANGED <<inputs, runVars, child, exitStatus, toWrite, wopen, heirs, task, sig, killTask>>

\* tokio::io::copy reads end-of-stream and the task finishes
CopyEof(s) ==
    /\ task[s] = "running"
    /\ AtEof(s)
    /\ task' = [task EXCEPT ![s] = "done"]
    /\ UNCHANGED <<inputs, runVars, child, exitStatus, toWrite, pipe, wopen, heirs, forwarded,
                   sig, killTask>>

\* tokio::io::copy fails (let _ = ...): the task finishes and drops its pipe end
CopyFail(s) ==
    /\ task[s] = "running"
    /\ task' = [task EXCEPT ![s] = "failed"]
    /\ pipe' = [pipe EXCEPT ![s] = 0]
    /\ UNCHANGED <<inputs, runVars, child, exitStatus, toWrite, wopen, heirs, forwarded,
                   sig, killTask>>

\* SIGTERM, SIGINT or Ctrl-C is sent to the launcher
SignalRaised ==
    /\ killTask = "listening"
    /\ sig = "none"
    /\ sig' = "raised"
    /\ UNCHANGED <<inputs, runVars, child, exitStatus, toWrite, pipe, wopen, heirs, task,
                   forwarded, killTask>>

\* wait_for_termination returns
WaitForTermination ==
    /\ killTask = "listening"
    /\ sig = "raised"
    /\ killTask' = "done"
    /\ UNCHANGED <<inputs, runVars, child, exitStatus, toWrite, pipe, wopen, heirs, task,
                   forwarded, sig>>

----------------------------------------------------------------------------
(* Specifications *)

Engine ==
    \/ RunCalled
    \/ RunBuild
    \/ RunSpawnFails
    \/ RunSpawn
    \/ SelectExit
    \/ SelectWaitErr
    \/ SelectCancel
    \/ KillReturn
    \/ JoinReturn
    \/ RunDropped

Os ==
    \/ \E s \in Streams : ChildWrite(s)
    \/ ChildFork
    \/ HeirClose
    \/ ChildExit
    \/ \E s \in Streams : CopyByte(s)
    \/ \E s \in Streams : CopyEof(s)
    \/ \E s \in Streams : CopyFail(s)
    \/ SignalRaised
    \/ WaitForTermination

Next == Engine \/ Os

\* The engine on every platform, from construction to the end of run
Spec == Init /\ [][Next]_vars

\* One engine of each variant on one machine, for the properties of progress
InitFair ==
    /\ platform = "linux"
    /\ variant \in {"current", "legacy"}
    /\ sandbox = FALSE
    /\ ctx \in EngineContexts
    /\ host = HostOf({"ls"}, {}, "file", NoEnv, TRUE)
    /\ InitRun

\* The copy tasks are tokio tasks of their own on the #[tokio::main] runtime,
\* which keeps polling them, and the launcher's own streams accept what they
\* write: a copy task that has a byte to move does move it unless it fails.
FairSpec == InitFair /\ [][Next]_vars /\ \A s \in Streams : WF_vars(CopyByte(s))

\* build_command alone, over the contexts and machines of BuildContexts and BuildHosts
BuildNext == RunCalled \/ RunBuild

BuildSpec == InitBuild /\ [][BuildNext]_vars

----------------------------------------------------------------------------
(* The lifecycle of one invocation of run *)

Running == pc \in {"build", "spawn", "select", "killing", "joining"}
Terminal == pc = "done"
Ended == pc \in {"done", "dropped", "panicked"}

BuildOrSpawnError ==
    /\ result.tag = "Err"
    /\ path = "none"
    /\ \/ result.err = cmdRes /\ ~cmdRes.ok /\ spawns = 0
       \/ result.err.kind = "SpawnFailed" /\ cmdRes.ok /\ spawns = 0

WaitError ==
    /\ result.tag = "Err"
    /\ path = "waiterr"
    /\ result.err.kind = "WaitFailed"
    /\ ~waitRes.ok

Completed == Terminal /\ path = "exit" /\ result.tag = "Ok" /\ waitRes.ok
Cancelled == Terminal /\ path = "cancel" /\ result = ROk(-1) /\ sig = "raised"
Failed == Terminal /\ (BuildOrSpawnError \/ WaitError)

ExactlyOneTerminal ==
    /\ Completed \/ Cancelled \/ Failed
    /\ ~(Completed /\ Cancelled)
    /\ ~(Completed /\ Failed)
    /\ ~(Cancelled /\ Failed)

LifecycleInv ==
    /\ Terminal => ExactlyOneTerminal /\ returns = 1
    /\ ~Terminal => result = NoResult /\ returns = 0

LifecycleStep ==
    /\ pc = "created" => pc' \in {"created", "build"}
    /\ Running => pc' \in {"build", "spawn", "select", "killing", "joining"}
                          \cup {"done", "dropped", "panicked"}
    /\ Terminal => pc' = "done" /\ result' = result /\ returns' = returns

\* C1: every invocation of run goes Created -> Running -> one terminal state;
\* at its end exactly one of Completed (Ok from the exit branch), Cancelled
\* (Ok(-1) after a termination request) and Failed (Err from build, spawn or
\* wait) holds, run has returned exactly once, and a terminal state is never
\* left nor its result changed.
C1_Lifecycle == [](LifecycleInv) /\ [][LifecycleStep]_vars

\* C1 witness: all three terminal states happen, e.g. a cancelled run whose
\* child had already exited when the termination branch won the select
C1_Witness == Cancelled /\ exitStatus # KilledStatus /\ exitStatus # NoStatus

\* C2: when the termination branch of the select wins, the child is killed
\* (it is never alive again), run returns Ok(-1), and once run has returned
\* the child is dead and reaped.
C2_CancelKills ==
    path = "cancel" =>
        /\ child \in {"zombie", "reaped"}
        /\ exitStatus # NoStatus
        /\ pc \in {"killing", "done", "dropped"}
        /\ pc = "done" => result = ROk(-1) /\ child = "reaped"

\* C2 witness: run has returned Ok(-1) after killing a live child, while a
\* copy task is still running
C2_Witness ==
    /\ pc = "done" /\ path = "cancel" /\ result = ROk(-1)
    /\ exitStatus = KilledStatus
    /\ task["out"] = "running"

\* C3: on the exit branch, no result exists while a copy task is still
\* running, and when run has returned both copy tasks have finished: each
\* read end-of-stream with nothing left in its pipe, or failed.
C3_JoinBeforeCode ==
    path = "exit" =>
        /\ (\E s \in Streams : task[s] = "running") => result = NoResult /\ pc # "done"
        /\ pc = "done" =>
             \A s \in Streams :
                /\ task[s] \in {"done", "failed"}
                /\ task[s] = "done" => pipe[s] = 0 /\ ~wopen[s]

\* C3 witness: a normal exit whose output was forwarded before run returned
C3_Witness ==
    /\ pc = "done" /\ path = "exit"
    /\ \A s \in Streams : task[s] = "done" /\ forwarded[s] = MaxWrite

\* C4: with the engine of src/native/src, run never ends (returns, panics or
\* is dropped) while the child it spawned is alive.
C4_NoOrphan ==
    (variant = "current" /\ Ended /\ spawns > 0) => child # "alive"

\* C4 witness: the wait failed, the copy tasks ended, and the live child was
\* killed as run returned the error
C4_Witness ==
    /\ variant = "current" /\ pc = "done" /\ path = "waiterr"
    /\ result.tag = "Err" /\ exitStatus = KilledStatus

\* The value of a 32-bit exit code read as a signed integer, from its halves
SignedValue(hi, lo) ==
    IF hi >= 2^15 THEN 0 - ((2^16 - 1 - hi) * 2^16 + (2^16 - lo)) ELSE hi * 2^16 + lo

\* The exit status carries a code, and it is c
HasOwnCode(st, c) ==
    IF IsWindows THEN c = SignedValue(st.hi, st.lo)
    ELSE st.kind = "exited" /\ c = st.lo

HasNoCode(st) == ~IsWindows /\ st.kind = "signaled"

ExitedOk == pc = "done" /\ path = "exit" /\ waitRes.ok

\* C5 as claimed: on the exit branch run returns the child's code, or -1
\* when the status has none; a result >= 0 is the child's own code and -1
\* means cancellation or a status without a code.
C5_AsClaimed ==
    /\ ExitedOk =>
         /\ result.tag = "Ok"
         /\ HasNoCode(waitRes.status) => result.code = -1
         /\ ~HasNoCode(waitRes.status) => HasOwnCode(waitRes.status, result.code)
    /\ (pc = "done" /\ result.tag = "Ok" /\ result.code >= 0) =>
         ExitedOk /\ HasOwnCode(waitRes.status, result.code)
    /\ (pc = "done" /\ result.tag = "Ok" /\ result.code = -1) =>
         path = "cancel" \/ (ExitedOk /\ HasNoCode(waitRes.status))

\* C5 amended: as claimed, but -1 may also be the child's own exit code,
\* which on Windows (32-bit codes, read as i32) is the code 0xFFFFFFFF.
C5_ExitCode ==
    /\ ExitedOk =>
         /\ result.tag = "Ok"
         /\ HasNoCode(waitRes.status) => result.code = -1
         /\ ~HasNoCode(waitRes.status) => HasOwnCode(waitRes.status, result.code)
    /\ (pc = "done" /\ result.tag = "Ok" /\ result.code >= 0) =>
         ExitedOk /\ HasOwnCode(waitRes.status, result.code)
    /\ (pc = "done" /\ result.tag = "Ok" /\ result.code = -1) =>
         \/ path = "cancel"
         \/ ExitedOk /\ HasNoCode(waitRes.status)
         \/ ExitedOk /\ IsWindows /\ HasOwnCode(waitRes.status, -1)

\* C5 witness: a Windows child exits with code 0xFFFFFFFF and run returns Ok(-1)
C5_Witness ==
    /\ ExitedOk /\ IsWindows /\ result = ROk(-1)
    /\ waitRes.status = Status("exited", 2^16 - 1, 2^16 - 1)

----------------------------------------------------------------------------
(* build_command *)

\* The platform's sandboxing helper is not on this machine
HelperAbsent ==
    \/ platform = "linux" /\ "bwrap" \notin host.onPath
    \/ platform = "macos" /\ "/usr/bin/sandbox-exec" \notin host.files

HelperName == IF platform = "linux" THEN "bwrap" ELSE "sandbox-exec"

BuildDone == pc \notin {"created", "build"}

\* C6: with sandbox=true and the helper absent, build_command fails with
\* ToolMissing naming the helper, run returns that very error without
\* spawning anything, and no strategy but the platform's own is ever asked
\* to build (no fallback to Host).
C6_ToolMissing ==
    (sandbox /\ HelperAbsent) =>
        /\ strategy # "Host"
        /\ built \in {<<>>, <<strategy>>}
        /\ spawns = 0 /\ child = "none"
        /\ pc \in {"created", "build", "done"}
        /\ BuildDone =>
             /\ ~cmdRes.ok
             /\ cmdRes.kind = "ToolMissing" /\ cmdRes.tool = HelperName
             /\ built = <<strategy>>
             /\ result = RErr(cmdRes)

\* C6 witness: run has returned on a sandboxed machine without the helper
C6_Witness == sandbox /\ HelperAbsent /\ pc = "done" /\ result.tag = "Err"

\* The command build_command returned Ok with
BuiltOk == BuildDone /\ cmdRes.ok

\* C7 as claimed: whatever the strategy, every entry of ctx.env_vars is in
\* the built command's final environment with the caller's value.
C7_EnvVarsWin ==
    BuiltOk =>
        \A k \in DOMAIN ctx.env_vars :
            /\ k \in DOMAIN FinalEnv(cmdRes.cmd)
            /\ FinalEnv(cmdRes.cmd)[k] = ctx.env_vars[k]

LinuxKeepSet == {LinuxKeepVars[i] : i \in 1..Len(LinuxKeepVars)}

\* C8 as claimed: on Linux every variable of the launcher's environment that
\* env_vars does not name reaches the child, and env_vars entries survive.
C8_AsClaimed ==
    (BuiltOk /\ strategy = "Linux") =>
        /\ cmdRes.cmd.env_clear
        /\ \A k \in DOMAIN host.env \ DOMAIN ctx.env_vars :
              k \in DOMAIN FinalEnv(cmdRes.cmd)
        /\ \A k \in DOMAIN ctx.env_vars : FinalEnv(cmdRes.cmd)[k] = ctx.env_vars[k]

\* C8 amended: on Linux the environment is cleared; of the launcher's
\* variables only those of the allowlist (PATH, JAVA_HOME, FLUTTER_ROOT,
\* GOPATH, TERM, LANG, HOME, SHELL) are passed, with the launcher's values
\* (HOME and TERM are not forced); then env_vars is laid on top, so an
\* env_vars entry for HOME or TERM is the value that survives.
C8_LinuxEnvOrder ==
    (BuiltOk /\ strategy = "Linux") =>
        LET e == FinalEnv(cmdRes.cmd) IN
        /\ cmdRes.cmd.env_clear
        /\ DOMAIN e = (DOMAIN host.env \cap LinuxKeepSet) \cup DOMAIN ctx.env_vars
        /\ \A k \in DOMAIN e :
              e[k] = IF k \in DOMAIN ctx.env_vars THEN ctx.env_vars[k] ELSE host.env[k]

\* C8 witness: the launcher has HOME, TERM and FOO; the caller sets HOME only
C8_Witness ==
    /\ BuiltOk /\ strategy = "Linux"
    /\ {"HOME", "TERM", "FOO"} \subseteq DOMAIN host.env
    /\ DOMAIN ctx.env_vars = {"HOME"}
    /\ FinalEnv(cmdRes.cmd)["HOME"] = "from-ctx"
    /\ FinalEnv(cmdRes.cmd)["TERM"] = "xterm"
    /\ "FOO" \notin DOMAIN FinalEnv(cmdRes.cmd)

\* C9: build_command leaves the context as it was and spawns nothing, and a
\* command it returns has stdin null and stdout and stderr piped.
C9_BuildFrame ==
    /\ [][ctx' = ctx /\ (pc = "build" => spawns' = spawns /\ child' = child)]_vars
    /\ [](BuiltOk => /\ cmdRes.cmd.stdin = "null"
                     /\ cmdRes.cmd.stdout = "piped"
                     /\ cmdRes.cmd.stderr = "piped")

\* C9 witness: the Windows strategy has built a rerouted command
C9_Witness ==
    /\ BuiltOk /\ strategy = "Windows" /\ ctx.cmd = "run.bat"
    /\ cmdRes.cmd.program = <<"cmd">> /\ spawns = 0

\* Number of operands each option of the helper takes
BwrapArity(opt) ==
    CASE opt \in {"--ro-bind", "--bind"} -> 2
      [] opt \in {"--dev", "--proc", "--tmpfs", "--dir", "--chdir"} -> 1
      [] OTHER -> 0

RECURSIVE BwrapOptions(_)
\* The options the helper reads from an argument list: up to the "--"
\* separator, skipping each option's operands
BwrapOptions(args) ==
    IF args = <<>> \/ Head(args) = "--" THEN <<>>
    ELSE <<Head(args)>>
         \o BwrapOptions(SubSeq(args, 2 + BwrapArity(Head(args)), Len(args)))

Count(seq, x) == Cardinality({i \in 1..Len(seq) : seq[i] = x})

\* C10: the options of the command built by the Linux strategy hold
\* --unshare-net once and --share-net never when allow_network is false, and
\* --share-net once and --unshare-net never when it is true.
C10_OneNetFlag ==
    (BuiltOk /\ strategy = "Linux") =>
        LET opts == BwrapOptions(cmdRes.cmd.args) IN
        /\ Count(opts, "--share-net") = (IF ctx.allow_network THEN 1 ELSE 0)
        /\ Count(opts, "--unshare-net") = (IF ctx.allow_network THEN 0 ELSE 1)

\* C10 witness: a command built with the network unshared whose target
\* command has the other flag among its own arguments
C10_Witness ==
    /\ BuiltOk /\ strategy = "Linux" /\ ~ctx.allow_network
    /\ ctx.args = <<"--share-net", "hi">>
    /\ Count(cmdRes.cmd.args, "--unshare-net") = 1

----------------------------------------------------------------------------
(* Rerouting of builtins through the command interpreter *)

\* The set the rerouting is said to cover: the ten builtins, in any letter
\* case, and the names with a batch-script suffix
ClaimedBuiltins ==
    {"echo", "dir", "del", "copy", "move", "mkdir", "rmdir", "type", "cls", "ping"}

InClaimedSet(name) ==
    \/ \E b \in ClaimedBuiltins : Chars(b) = ToLowercase(Chars(name))
    \/ EndsWith(ToLowercase(Chars(name)), Chars(".bat"))
    \/ EndsWith(ToLowercase(Chars(name)), Chars(".cmd"))

\* The command runs ctx's program through the interpreter
ViaInterpreter(cmd, c) ==
    /\ cmd.program = <<"cmd">>
    /\ cmd.args = <<"/c", c.cmd>> \o c.args

\* The command runs ctx's program itself
Direct(cmd, c) == cmd.program = Which(c.cmd) /\ cmd.args = c.args

\* C11 as claimed: on Windows the Host and the Windows strategy reroute the
\* same program names, namely those of the ten builtins (any letter case)
\* and those with a batch suffix, and a rerouted command is `cmd /c <program>
\* <args...>`; any other program is run directly by both.
C11_SameRerouting ==
    (BuiltOk /\ platform = "windows" /\ host.jobOk) =>
        LET h == HostBuild(ctx).cmd
            w == WindowsBuild(ctx).cmd
        IN  IF InClaimedSet(ctx.cmd)
            THEN ViaInterpreter(h, ctx) /\ ViaInterpreter(w, ctx)
            ELSE Direct(h, ctx) /\ Direct(w, ctx)

----------------------------------------------------------------------------
(* The child against the bounded pipes *)

\* The child has a byte to write to s and the pipe, still read, has no room
Blocked(s) ==
    /\ child = "alive"
    /\ toWrite[s] > 0
    /\ ~ReaderGone(s)
    /\ pipe[s] >= PipeCap

\* C12: both pipes are being read by the time run waits for the child, a
\* child blocked on a full pipe can always be relieved by that pipe's copy
\* task alone, whatever the other task and the race are doing, and every
\* blocked write is eventually unblocked.
C12_NoPipeDeadlock ==
    /\ [](pc = "select" => \A s \in Streams : task[s] # "none")
    /\ [](\A s \in Streams : Blocked(s) => ENABLED CopyByte(s))
    /\ \A s \in Streams : Blocked(s) ~> ~Blocked(s)

\* run waits in the race while the child is blocked on both pipes at once
C12_Witness == pc = "select" /\ \A s \in Streams : Blocked(s)

----------------------------------------------------------------------------
(* A termination request after the child's exit was observed *)

\* The kill branch is out of reach: run only joins, returns or is dropped,
\* the child it reaped is not killed, and what run returns is the result of
\* the child's status whether or not a termination request has come
ExitBranchKept ==
    /\ pc \in {"joining", "done", "dropped"}
    /\ waitRes.ok /\ waitRes.status = exitStatus /\ child = "reaped"
    /\ pc = "done" =>
         /\ result.tag = "Ok"
         /\ HasNoCode(waitRes.status) => result.code = -1
         /\ ~HasNoCode(waitRes.status) => HasOwnCode(waitRes.status, result.code)

====
